---- MODULE Spec2Model ----
(***************************************************************************)
(* A model of build.py, the build script of the LibraLM DXT package.       *)
(*                                                                         *)
(* The state is the part of the filesystem the script reads and writes     *)
(* (manifest.json, the allow-listed source files, the staging directory    *)
(* "bundle", the archive "libralm.dxt"), the process working directory,    *)
(* the position of main() and the exit status of the process.  The two     *)
(* external programs (node, npm) and the filesystem errors the script      *)
(* handles are the environment: their outcomes are chosen with \E.         *)
(*                                                                         *)
(* A path is a sequence of names relative to the directory the script was  *)
(* started in; <<"bundle", "node_modules", "foo", "index.js">> is          *)
(* bundle/node_modules/foo/index.js.  A directory exists when a file lies  *)
(* beneath it (the archiver writes files only, so empty directories do not *)
(* matter).  Every file carries a generation: "fresh" when this run of the *)
(* script wrote it, "stale" when it was there before the run started.      *)
(***************************************************************************)
EXTENDS Naturals, Sequences, FiniteSets, TLC

VARIABLES
    pc,          \* position of main(): a stage name, "npm", "prune" or "exit"
    manifest,    \* what manifest.json holds: [kind, items]
    srcs,        \* the allow-listed files, other than manifest.json, present in the working directory
    bundleKind,  \* what "bundle" is: "none", "dir" or "file"
    bundle,      \* the files beneath bundle/: a set of [path, gen]
    archive,     \* libralm.dxt: [kind, gen, entries]
    cwd,         \* the process working directory, a path
    original_dir, \* install_dependencies' local: the directory to return to
    exitcode,    \* "running", or the exit status 0 / 1
    failure,     \* what went wrong in this run, "none" when nothing did
    ran,         \* the stages this run has started, in order (the console log)
    dirty,       \* this run has changed the filesystem
    installed,   \* the paths npm install wrote in this run
    stuck,       \* the paths whose removal raised during this run's pruning
    prev         \* the exit status of the run before this one: <<>> when there was none, else <<status>>

vars == <<pc, manifest, srcs, bundleKind, bundle, archive, cwd, original_dir, exitcode,
          failure, ran, dirty, installed, stuck, prev>>

---------------------------------------------------------------------------
(* Bounds of the model. *)

\* npm install writes at most this many files of NpmUniverse in one run
MaxNpmFiles == 2

\* at most this many removals raise during one pruning pass
MaxStuck == 1

---------------------------------------------------------------------------
(* Names and their characters.  TLC cannot take a string apart, so the     *)
(* characters of every name of the model are tabulated here; pattern       *)
(* matching works on these characters.                                     *)

Chars(name) ==
    CASE name = "manifest.json"         -> <<"m","a","n","i","f","e","s","t",".","j","s","o","n">>
      [] name = "libralm_mcp_server.js" -> <<"l","i","b","r","a","l","m","_","m","c","p","_","s","e","r","v","e","r",".","j","s">>
      [] name = "package.json"          -> <<"p","a","c","k","a","g","e",".","j","s","o","n">>
      [] name = "LICENSE"               -> <<"L","I","C","E","N","S","E">>
      [] name = "README.md"             -> <<"R","E","A","D","M","E",".","m","d">>
      [] name = "icon.png"              -> <<"i","c","o","n",".","p","n","g">>
      [] name = "bundle"                -> <<"b","u","n","d","l","e">>
      [] name = "node_modules"          -> <<"n","o","d","e","_","m","o","d","u","l","e","s">>
      [] name = "package-lock.json"     -> <<"p","a","c","k","a","g","e","-","l","o","c","k",".","j","s","o","n">>
      [] name = "foo"                   -> <<"f","o","o">>
      [] name = "index.js"              -> <<"i","n","d","e","x",".","j","s">>
      [] name = "NOTES.md"              -> <<"N","O","T","E","S",".","m","d">>
      [] name = "test"                  -> <<"t","e","s","t">>
      [] name = "t.js"                  -> <<"t",".","j","s">>
      [] name = "tests.js"              -> <<"t","e","s","t","s",".","j","s">>
      [] name = "LICENSE.txt"           -> <<"L","I","C","E","N","S","E",".","t","x","t">>
      [] name = "examples"              -> <<"e","x","a","m","p","l","e","s">>
      [] name = "demo.js"               -> <<"d","e","m","o",".","j","s">>
      [] name = "old.js"                -> <<"o","l","d",".","j","s">>
      [] name = "*.md"                  -> <<"*",".","m","d">>
      [] name = "*.txt"                 -> <<"*",".","t","x","t">>
      [] name = "tests"                 -> <<"t","e","s","t","s">>
      [] name = "example"               -> <<"e","x","a","m","p","l","e">>
      [] name = ".github"               -> <<".","g","i","t","h","u","b">>

\* fnmatch on characters: "*" matches any run of characters, every other
\* character matches itself (case-sensitive, as on POSIX).
RECURSIVE MatchChars(_, _)
MatchChars(p, s) ==
    IF p = <<>> THEN s = <<>>
    ELSE IF Head(p) = "*"
         THEN MatchChars(Tail(p), s) \/ (s # <<>> /\ MatchChars(p, Tail(s)))
         ELSE s # <<>> /\ Head(p) = Head(s) /\ MatchChars(Tail(p), Tail(s))

Match(pattern, name) == MatchChars(Chars(pattern), Chars(name))

---------------------------------------------------------------------------
(* Paths. *)

OriginalDir == <<>>

BundleDir == <<"bundle">>

NodeModules == <<"bundle", "node_modules">>

IsPrefix(d, p) == Len(d) <= Len(p) /\ SubSeq(p, 1, Len(d)) = d

IsProperPrefix(d, p) == Len(d) < Len(p) /\ SubSeq(p, 1, Len(d)) = d

Last(p) == p[Len(p)]

\* os.path.join(root, file)
Join(root, file) == Append(root, file)

Paths(files) == {f.path : f \in files}

\* the directories of a tree: the proper prefixes of its files' paths
Dirs(files) == UNION {{SubSeq(p, 1, n) : n \in 1..(Len(p) - 1)} : p \in Paths(files)}

\* the files of a tree at or beneath the entry e
Beneath(files, e) == {f \in files : IsPrefix(e, f.path)}

\* a tree with the files `new` written into it (a file written over an
\* existing one replaces it)
Written(files, new) == {f \in files : f.path \notin Paths(new)} \cup new

Fresh(paths) == {[path |-> p, gen |-> "fresh"] : p \in paths}

Aged(files) == {[path |-> f.path, gen |-> "stale"] : f \in files}

RECURSIVE SetToSeq(_)
SetToSeq(S) ==
    IF S = {} THEN <<>>
    ELSE LET x == CHOOSE y \in S : TRUE IN <<x>> \o SetToSeq(S \ {x})

RECURSIVE Flatten(_)
Flatten(ss) == IF ss = <<>> THEN <<>> ELSE Head(ss) \o Flatten(Tail(ss))

Range(s) == {s[i] : i \in DOMAIN s}

---------------------------------------------------------------------------
(* validate_manifest.                                                      *)
(*                                                                         *)
(* manifest.json is modelled by what json.load returns for it: kind is     *)
(* "missing" (no such file), "malformed" (not JSON), "object", "array",    *)
(* "string" or "number"; items are the required names that are keys of     *)
(* the object, elements of the array, or substrings of the string.         *)

required == <<"dxt_version", "name", "version", "description", "author", "server">>

Required == Range(required)

\* `field not in manifest` raises TypeError on a value that is no container
InRaises(m) == m.kind \notin {"object", "array", "string"}

\* `field in manifest`: a key of a dict, an element of a list, a substring of a str
In(field, m) == field \in m.items

\* the loop over the required fields: False at the first field that is
\* missing, False as well when the test raises (except Exception)
RECURSIVE CheckFields(_, _)
CheckFields(m, fields) ==
    IF fields = <<>> THEN TRUE
    ELSE IF InRaises(m) THEN FALSE
    ELSE IF ~In(Head(fields), m) THEN FALSE
    ELSE CheckFields(m, Tail(fields))

validate_manifest(m) ==
    IF m.kind \in {"missing", "malformed"} THEN FALSE  \* open / json.load raise
    ELSE CheckFields(m, required)

---------------------------------------------------------------------------
(* check_node.  The outcome of running `node --version` is the             *)
(* environment's: "ok" (exit status 0), "nonzero", "absent" (no such       *)
(* executable: FileNotFoundError, which check_node catches) or             *)
(* "not_executable" (PermissionError, which nothing catches).              *)

NodeOutcomes == {"ok", "nonzero", "absent", "not_executable"}

check_node(outcome) == outcome = "ok"

\* the exception that leaves check_node
CheckNodeRaises(outcome) == IF outcome = "not_executable" THEN "PermissionError" ELSE "none"

---------------------------------------------------------------------------
(* The bundle assembler: clean_build, create_bundle_dir, copy_source_files.*)
(* Each operator gives the filesystem after the call and the exception     *)
(* that left it ("none" when it returned).  err names the filesystem call  *)
(* that the environment makes raise OSError, "none" for no such call.      *)

NoArchive == [kind |-> "none", gen |-> "none", entries |-> <<>>]

Fs(bk, b, a, exc) == [bundleKind |-> bk, bundle |-> b, archive |-> a, exc |-> exc]

\* clean_build without its second half: the old archive is left in place
clean_build_KeepsArchive(bk, b, a, err) ==
    IF bk # "none" /\ (bk = "file" \/ err = "rmtree")
    THEN Fs(bk, b, a, "OSError")
    ELSE Fs("none", {}, a, "none")

\* clean_build without its first half: the old staging directory is left in place
clean_build_KeepsBundle(bk, b, a, err) ==
    IF a.kind # "none" /\ err = "remove"
    THEN Fs(bk, b, a, "OSError")
    ELSE Fs(bk, b, NoArchive, "none")

clean_build(bk, b, a, err) ==
    IF bk # "none" /\ (bk = "file" \/ err = "rmtree")
    THEN Fs(bk, b, a, "OSError")                \* shutil.rmtree("bundle") raised
    ELSE IF a.kind # "none" /\ err = "remove"
         THEN Fs("none", {}, a, "OSError")      \* os.remove("libralm.dxt") raised
         ELSE Fs("none", {}, NoArchive, "none")

create_bundle_dir(bk, b, a, err) ==
    IF bk = "file" \/ err = "makedirs"
    THEN Fs(bk, b, a, "OSError")
    ELSE Fs("dir", b, a, "none")                \* exist_ok=True: an existing directory is kept

\* the allow-list with its last file forgotten
files_to_copy_NoIcon == <<"manifest.json", "libralm_mcp_server.js", "package.json",
                          "LICENSE", "README.md">>

files_to_copy == <<"manifest.json", "libralm_mcp_server.js", "package.json",
                   "LICENSE", "README.md", "icon.png">>

\* os.path.exists(file), for the files of the working directory
Exists(file, m, present) ==
    IF file = "manifest.json" THEN m.kind # "missing" ELSE file \in present

\* shutil.copy2(file, "bundle/")
Copy2(file, b) == Written(b, Fresh({Join(BundleDir, file)}))

\* the loop of copy_source_files from the i-th file on; errAt is the index
\* of the file whose copy raises, 0 for none
RECURSIVE CopyLoop(_, _, _, _, _, _, _)
CopyLoop(i, bk, b, a, m, present, errAt) ==
    IF i > Len(files_to_copy) THEN Fs(bk, b, a, "none")
    ELSE IF ~Exists(files_to_copy[i], m, present)
         THEN CopyLoop(i + 1, bk, b, a, m, present, errAt)
    ELSE IF bk # "dir" \/ errAt = i THEN Fs(bk, b, a, "OSError")
    ELSE CopyLoop(i + 1, bk, Copy2(files_to_copy[i], b), a, m, present, errAt)

copy_source_files(bk, b, a, m, present, errAt) == CopyLoop(1, bk, b, a, m, present, errAt)

---------------------------------------------------------------------------
(* install_dependencies: the npm run and the pruning.                      *)

\* what `npm install --production` can write, relative to the directory it
\* runs in: the dependency tree node_modules and the lock file beside it
NpmUniverse ==
    { <<"package-lock.json">>,
      <<"node_modules", "foo", "index.js">>,
      <<"node_modules", "foo", "NOTES.md">>,
      <<"node_modules", "foo", "test", "t.js">>,
      <<"node_modules", "foo", "tests.js">>,
      <<"node_modules", "foo", "examples", "demo.js">>,
      <<"node_modules", "bundle", "LICENSE.txt">> }

NpmTrees == {t \in SUBSET NpmUniverse : Cardinality(t) <= MaxNpmFiles}

\* subprocess.run(..., check=True): exit status 0, a non-zero exit status
\* (CalledProcessError), or no npm executable (FileNotFoundError)
NpmOutcomes == {"ok", "nonzero", "cannot_start"}

\* the handler of CalledProcessError without its sys.exit(1): the failure is
\* printed and install_dependencies goes on
NpmRaises_Swallow(outcome) ==
    CASE outcome = "ok"           -> "none"
      [] outcome = "nonzero"      -> "none"
      [] outcome = "cannot_start" -> "FileNotFoundError"

\* the exception that leaves the try statement of install_dependencies:
\* CalledProcessError is caught and answered with sys.exit(1), any other
\* exception passes through
NpmRaises(outcome) ==
    CASE outcome = "ok"           -> "none"
      [] outcome = "nonzero"      -> "SystemExit"
      [] outcome = "cannot_start" -> "FileNotFoundError"

\* os.chdir(original_dir) after the call instead of in a finally clause:
\* skipped when the call raises
CwdAfterNpm_NoFinally(outcome, dir, orig) == IF outcome = "ok" THEN orig ELSE dir

\* finally: os.chdir(original_dir)
CwdAfterNpm(outcome, dir, orig) == orig

patterns_to_remove == <<"*.md", "*.txt", "test", "tests", "example", "examples", ".github">>

\* glob instead of rglob: the entries directly in base only
Rglob_TopLevel(files, base, pattern) ==
    {e \in Paths(files) \cup Dirs(files) :
        IsProperPrefix(base, e) /\ Len(e) = Len(base) + 1 /\ Match(pattern, Last(e))}

\* Path(base).rglob(pattern): the files and directories beneath base, at
\* any depth, whose name matches the pattern
Rglob(files, base, pattern) ==
    {e \in Paths(files) \cup Dirs(files) : IsProperPrefix(base, e) /\ Match(pattern, Last(e))}

\* the files one removal takes away: shutil.rmtree(path, ignore_errors=True)
\* for a directory, path.unlink() for a file; a removal that raises (the
\* paths of failing) is passed over and leaves the file where it is
Removed(files, e, failing) ==
    IF e \in Dirs(files)
    THEN {f \in Beneath(files, e) : f.path \notin failing}
    ELSE {f \in files : f.path = e /\ e \notin failing}

PrunePattern(files, pattern, failing) ==
    files \ UNION {Removed(files, e, failing) : e \in Rglob(files, NodeModules, pattern)}

\* the loop over patterns_to_remove
RECURSIVE PruneLoop(_, _, _)
PruneLoop(files, patterns, failing) ==
    IF patterns = <<>> THEN files
    ELSE PruneLoop(PrunePattern(files, Head(patterns), failing), Tail(patterns), failing)

Prune(files, failing) == PruneLoop(files, patterns_to_remove, failing)

\* the files the pruning tries to remove
PruneTargets(files) ==
    UNION {Paths(Beneath(files, e)) :
           e \in UNION {Rglob(files, NodeModules, patterns_to_remove[i]) : i \in DOMAIN patterns_to_remove}}

---------------------------------------------------------------------------
(* create_dxt_package.                                                     *)

RECURSIVE CommonLen(_, _)
CommonLen(p, q) ==
    IF p = <<>> \/ q = <<>> \/ Head(p) # Head(q) THEN 0
    ELSE 1 + CommonLen(Tail(p), Tail(q))

\* os.path.relpath(path, start): ".." for every component of start that is
\* not shared, then the rest of path
relpath(path, start) ==
    LET c == CommonLen(path, start)
    IN  [i \in 1..(Len(start) - c) |-> ".."] \o SubSeq(path, c + 1, Len(path))

\* os.walk(root): the files of each directory, top-down, joined to it
RECURSIVE Walk(_, _)
Walk(files, root) ==
    LET here == {p \in Paths(files) : Len(p) = Len(root) + 1 /\ IsPrefix(root, p)}
        subdirs == SetToSeq({d \in Dirs(files) : Len(d) = Len(root) + 1 /\ IsPrefix(root, d)})
    IN  SetToSeq(here) \o Flatten([i \in DOMAIN subdirs |-> Walk(files, subdirs[i])])

GenOf(files, p) == (CHOOSE f \in files : f.path = p).gen

\* dxt.write(file_path) without an arcname: the entry is named by the path walked
Arcname_FilePath(file_path) == file_path

\* arcname = os.path.relpath(file_path, "bundle")
Arcname(file_path) == relpath(file_path, BundleDir)

\* the entries dxt.write(file_path, arcname) adds, in the order of the walk
Entries(files) ==
    LET w == Walk(files, BundleDir)
    IN  [i \in DOMAIN w |-> [name |-> Arcname(w[i]), gen |-> GenOf(files, w[i])]]

\* zipfile.ZipFile("libralm.dxt", "w") truncates the file and the loop
\* writes the entries; errAt is the index of the write that raises (0:
\* none), and the with statement closes the archive with what was written
create_dxt_package(bk, b, a, errAt) ==
    LET es == Entries(b)
    IN  IF errAt = 0
        THEN Fs(bk, b, [kind |-> "file", gen |-> "fresh", entries |-> es], "none")
        ELSE Fs(bk, b, [kind |-> "file", gen |-> "fresh", entries |-> SubSeq(es, 1, errAt - 1)], "OSError")

\* shutil.rmtree("bundle") at the end of main
final_rmtree(bk, b, a, err) ==
    IF bk # "dir" \/ err = "rmtree"
    THEN Fs(bk, b, a, "OSError")
    ELSE Fs("none", {}, a, "none")

---------------------------------------------------------------------------
(* main.                                                                   *)

\* main with clean_build called ahead of the manifest validation
Stages_CleanFirst ==
    <<"check_node", "clean_build", "validate_manifest", "create_bundle_dir",
      "copy_source_files", "install_dependencies", "create_dxt_package", "rmtree">>

\* the stages of main, in the order of its calls
Stages == <<"check_node", "validate_manifest", "clean_build", "create_bundle_dir",
            "copy_source_files", "install_dependencies", "create_dxt_package", "rmtree">>

StageIndex(stage) == CHOOSE i \in DOMAIN Stages : Stages[i] = stage

\* where main goes when a stage returns
StageAfter(stage) ==
    IF StageIndex(stage) = Len(Stages) THEN "exit" ELSE Stages[StageIndex(stage) + 1]

\* the checks of main without their sys.exit(1): the failure is printed and
\* main goes on
Proceed_Anyway(ok, stage) == StageAfter(stage)

\* `if not check_node(): ... sys.exit(1)` and `if not validate_manifest(): ... sys.exit(1)`
Proceed(ok, stage) == IF ok THEN StageAfter(stage) ELSE "exit"

\* the try statement of main: a stage that raises ends the run
AfterStage(stage, exc) == IF exc = "none" THEN StageAfter(stage) ELSE "exit"

\* the exit status of the process: 0 when main returns; the argument of
\* sys.exit for SystemExit, which `except Exception` does not catch; 1 from
\* the sys.exit(1) of the handler for every Exception raised in the try
\* statement; 1 from the interpreter for an exception nothing catches
ExitStatus(exc) ==
    CASE exc = "none"       -> 0
      [] exc = "SystemExit" -> 1
      [] OTHER              -> 1

\* <<>> while the process runs, <<status>> once it has exited
ExitCode(next, exc) == IF next = "exit" THEN <<ExitStatus(exc)>> ELSE <<>>

\* a stage of the try statement has run and left the filesystem r
Staged(stage, r) ==
    /\ bundleKind' = r.bundleKind
    /\ bundle' = r.bundle
    /\ archive' = r.archive
    /\ dirty' = (dirty \/ <<r.bundleKind, r.bundle, r.archive>> # <<bundleKind, bundle, archive>>)
    /\ failure' = IF r.exc = "none" THEN failure ELSE "exception"
    /\ pc' = AfterStage(stage, r.exc)
    /\ exitcode' = ExitCode(AfterStage(stage, r.exc), r.exc)

CheckNode ==
    /\ pc = "check_node"
    /\ \E outcome \in NodeOutcomes :
        LET exc == CheckNodeRaises(outcome)
            next == IF exc # "none" THEN "exit" ELSE Proceed(check_node(outcome), "check_node")
        IN  /\ pc' = next
            /\ exitcode' = ExitCode(next, IF exc # "none" THEN exc ELSE "SystemExit")
            /\ failure' = IF outcome = "ok" THEN "none" ELSE "runtime"
    /\ ran' = Append(ran, "check_node")
    /\ UNCHANGED <<manifest, srcs, bundleKind, bundle, archive, cwd, original_dir,
                   dirty, installed, stuck, prev>>

ValidateManifest ==
    /\ pc = "validate_manifest"
    /\ LET ok == validate_manifest(manifest)
           next == Proceed(ok, "validate_manifest")
       IN  /\ pc' = next
           /\ exitcode' = ExitCode(next, "SystemExit")
           /\ failure' = IF ok THEN failure ELSE "manifest"
    /\ ran' = Append(ran, "validate_manifest")
    /\ UNCHANGED <<manifest, srcs, bundleKind, bundle, archive, cwd, original_dir,
                   dirty, installed, stuck, prev>>

CleanBuild ==
    /\ pc = "clean_build"
    /\ \E err \in {"none", "rmtree", "remove"} :
        Staged("clean_build", clean_build(bundleKind, bundle, archive, err))
    /\ ran' = Append(ran, "clean_build")
    /\ UNCHANGED <<manifest, srcs, cwd, original_dir, installed, stuck, prev>>

CreateBundleDir ==
    /\ pc = "create_bundle_dir"
    /\ \E err \in {"none", "makedirs"} :
        Staged("create_bundle_dir", create_bundle_dir(bundleKind, bundle, archive, err))
    /\ ran' = Append(ran, "create_bundle_dir")
    /\ UNCHANGED <<manifest, srcs, cwd, original_dir, installed, stuck, prev>>

CopySourceFiles ==
    /\ pc = "copy_source_files"
    /\ \E errAt \in 0..Len(files_to_copy) :
        Staged("copy_source_files",
               copy_source_files(bundleKind, bundle, archive, manifest, srcs, errAt))
    /\ ran' = Append(ran, "copy_source_files")
    /\ UNCHANGED <<manifest, srcs, cwd, original_dir, installed, stuck, prev>>

\* install_dependencies up to the npm run: copy package.json, remember the
\* working directory, change into bundle
InstallChdir ==
    /\ pc = "install_dependencies"
    /\ ran' = Append(ran, "install_dependencies")
    /\ IF ~Exists("package.json", manifest, srcs) \/ bundleKind # "dir"
       THEN \* shutil.copy2 raises before the directory is changed
            /\ Staged("install_dependencies", Fs(bundleKind, bundle, archive, "FileNotFoundError"))
            /\ UNCHANGED <<cwd, original_dir>>
       ELSE /\ bundle' = Copy2("package.json", bundle)
            /\ dirty' = (dirty \/ bundle' # bundle)
            /\ original_dir' = cwd
            /\ cwd' = cwd \o BundleDir
            /\ pc' = "npm"
            /\ UNCHANGED <<bundleKind, archive, exitcode, failure>>
    /\ UNCHANGED <<manifest, srcs, installed, stuck, prev>>

\* the try / except / finally around subprocess.run: npm writes into the
\* directory it runs in, which is the working directory of the process
NpmInstall ==
    /\ pc = "npm"
    /\ \E outcome \in NpmOutcomes, tree \in NpmTrees :
        LET exc == NpmRaises(outcome)
            written == IF outcome = "cannot_start" THEN {} ELSE {cwd \o p : p \in tree}
        IN  /\ bundle' = Written(bundle, Fresh(written))
            /\ installed' = written
            /\ dirty' = (dirty \/ bundle' # bundle)
            /\ cwd' = CwdAfterNpm(outcome, cwd, original_dir)
            /\ failure' = CASE outcome = "ok"           -> failure
                            [] outcome = "nonzero"      -> "install"
                            [] outcome = "cannot_start" -> "exception"
            /\ pc' = IF exc = "none" THEN "prune" ELSE "exit"
            /\ exitcode' = ExitCode(IF exc = "none" THEN "prune" ELSE "exit", exc)
    /\ UNCHANGED <<manifest, srcs, bundleKind, archive, original_dir, ran, stuck, prev>>

\* the rest of install_dependencies: the pruning of bundle/node_modules
PruneDependencies ==
    /\ pc = "prune"
    /\ \E failing \in SUBSET PruneTargets(bundle) :
        /\ Cardinality(failing) <= MaxStuck
        /\ stuck' = failing
        /\ Staged("install_dependencies", Fs(bundleKind, Prune(bundle, failing), archive, "none"))
    /\ UNCHANGED <<manifest, srcs, cwd, original_dir, ran, installed, prev>>

CreateDxtPackage ==
    /\ pc = "create_dxt_package"
    /\ \E errAt \in 0..Cardinality(bundle) :
        Staged("create_dxt_package", create_dxt_package(bundleKind, bundle, archive, errAt))
    /\ ran' = Append(ran, "create_dxt_package")
    /\ UNCHANGED <<manifest, srcs, cwd, original_dir, installed, stuck, prev>>

FinalRmtree ==
    /\ pc = "rmtree"
    /\ \E err \in {"none", "rmtree"} :
        Staged("rmtree", final_rmtree(bundleKind, bundle, archive, err))
    /\ ran' = Append(ran, "rmtree")
    /\ UNCHANGED <<manifest, srcs, cwd, original_dir, installed, stuck, prev>>

\* the script is started again in the same directory: what the earlier run
\* left on the filesystem is now stale
Rerun ==
    /\ pc = "exit"
    /\ pc' = Stages[1]
    /\ exitcode' = <<>>
    /\ failure' = "none"
    /\ ran' = <<>>
    /\ dirty' = FALSE
    /\ installed' = {}
    /\ stuck' = {}
    /\ cwd' = OriginalDir
    /\ original_dir' = OriginalDir
    /\ prev' = exitcode
    /\ bundle' = Aged(bundle)
    /\ archive' = IF archive.kind = "none" THEN archive
                  ELSE [kind |-> "file", gen |-> "stale",
                        entries |-> [i \in DOMAIN archive.entries |->
                                        [name |-> archive.entries[i].name, gen |-> "stale"]]]
    /\ UNCHANGED <<manifest, srcs, bundleKind>>

---------------------------------------------------------------------------
(* The states the script can be started in. *)

ItemSets == {Required} \cup {Required \ {k} : k \in Required}

Manifests ==
    [kind : {"object", "array", "string"}, items : ItemSets]
        \cup [kind : {"missing", "malformed", "number"}, items : {{}}]

Optional == {"libralm_mcp_server.js", "package.json", "LICENSE", "README.md", "icon.png"}

SrcChoices ==
    { Optional, Optional \ {"package.json"}, Optional \ {"README.md", "icon.png"}, {"package.json"} }

StaleBundle == {[path |-> <<"bundle", "old.js">>, gen |-> "stale"]}

StaleArchive ==
    [kind |-> "file", gen |-> "stale", entries |-> <<[name |-> <<"old.js">>, gen |-> "stale"]>>]

Init ==
    /\ pc = Stages[1]
    /\ manifest \in Manifests
    /\ srcs \in SrcChoices
    /\ \E prior \in {<<"none", {}>>, <<"file", {}>>, <<"dir", {}>>, <<"dir", StaleBundle>>} :
        bundleKind = prior[1] /\ bundle = prior[2]
    /\ archive \in {NoArchive, StaleArchive}
    /\ cwd = OriginalDir
    /\ original_dir = OriginalDir
    /\ exitcode = <<>>
    /\ failure = "none"
    /\ ran = <<>>
    /\ dirty = FALSE
    /\ installed = {}
    /\ stuck = {}
    /\ prev = <<>>

Next ==
    \/ CheckNode
    \/ ValidateManifest
    \/ CleanBuild
    \/ CreateBundleDir
    \/ CopySourceFiles
    \/ InstallChdir
    \/ NpmInstall
    \/ PruneDependencies
    \/ CreateDxtPackage
    \/ FinalRmtree
    \/ Rerun

Spec == Init /\ [][Next]_vars

---------------------------------------------------------------------------
(* The properties.  They are stated with the names below, which are        *)
(* written out here and not taken from the definitions of the script.      *)

\* the run has ended with exit status 0
Succeeded == pc = "exit" /\ exitcode = <<0>>

AllowListed == {"manifest.json", "libralm_mcp_server.js", "package.json",
                "LICENSE", "README.md", "icon.png"}

AllOptional == AllowListed \ {"manifest.json"}

PrunePatterns == {"*.md", "*.txt", "test", "tests", "example", "examples", ".github"}

StageOrder == <<"check_node", "validate_manifest", "clean_build", "create_bundle_dir",
                "copy_source_files", "install_dependencies", "create_dxt_package", "rmtree">>

\* the names of the archive's entries
EntryNames == {archive.entries[i].name : i \in DOMAIN archive.entries}

\* an entry name that lies in the dependency tree and has, below
\* node_modules, a component matching a prune pattern
Prunable(name) ==
    /\ name[1] = "node_modules"
    /\ \E i \in 2..Len(name) : \E pat \in PrunePatterns : Match(pat, name[i])

\* the keys of the manifest: a JSON value that is no object has none
Keys(m) == IF m.kind = "object" THEN m.items ELSE {}

\* manifest.json parses, and the value lacks a required key
LacksRequiredKey(m) ==
    /\ m.kind \notin {"missing", "malformed"}
    /\ \E k \in {"dxt_version", "name", "version", "description", "author", "server"} :
          k \notin Keys(m)

C2_MissingKeyAborts ==
    (LacksRequiredKey(manifest) /\ "validate_manifest" \in Range(ran)) =>
        (~validate_manifest(manifest) /\ pc = "exit" /\ exitcode = <<1>>)

\* C2 for the manifests that are JSON objects (what the code does check)
C2_ObjectMissingKeyAborts ==
    (manifest.kind = "object" /\ LacksRequiredKey(manifest) /\ "validate_manifest" \in Range(ran)) =>
        (~validate_manifest(manifest) /\ pc = "exit" /\ exitcode = <<1>>)

\* C3: when npm install exits non-zero the run is over: the archiving
\* stage has not run, no archive exists, the working directory is the
\* original one and the exit status is 1.
C3_InstallFailure ==
    failure = "install" =>
        /\ pc = "exit"
        /\ exitcode = <<1>>
        /\ archive.kind = "none"
        /\ "create_dxt_package" \notin Range(ran)
        /\ cwd = OriginalDir

C3_Witness ==
    pc = "exit" /\ failure = "install" /\ installed # {} /\ prev = <<0>> /\ dirty

\* C4: after every successful run, whatever the run found on the
\* filesystem, the archive exists and was written by this run, no staging
\* directory remains, and every entry of the archive comes from a file
\* this run put into the staging directory.
C4_FreshArchive ==
    Succeeded =>
        /\ archive.kind = "file" /\ archive.gen = "fresh"
        /\ bundleKind = "none" /\ bundle = {}
        /\ \A i \in DOMAIN archive.entries : archive.entries[i].gen = "fresh"

C4_Witness == Succeeded /\ prev = <<0>> /\ Len(archive.entries) > 1

\* C5 as stated: after a successful build with all optional files present,
\* the archive holds exactly the six allow-listed files and the files of
\* the dependency tree that match no prune pattern.
C5_ExactContents ==
    (Succeeded /\ srcs = AllOptional) =>
        /\ EntryNames = {<<f>> : f \in AllowListed}
                \cup {Tail(p) : p \in {q \in installed :
                                         Tail(q)[1] = "node_modules" /\ ~Prunable(Tail(q))}}
        /\ Len(archive.entries) = Cardinality(EntryNames)

\* C5 amended: after a successful build with all optional files present,
\* the archive holds exactly the six allow-listed files and every file npm
\* install wrote into the staging directory (the dependency tree and what
\* npm wrote beside it), less the files of the dependency tree that match
\* a prune pattern and whose removal did not fail; each once.
C5_StagedContents ==
    (Succeeded /\ srcs = AllOptional) =>
        /\ EntryNames = {<<f>> : f \in AllowListed}
                \cup {Tail(p) : p \in {q \in installed : ~Prunable(Tail(q)) \/ q \in stuck}}
        /\ Len(archive.entries) = Cardinality(EntryNames)

C5_Witness ==
    /\ Succeeded /\ srcs = AllOptional
    /\ <<"bundle", "package-lock.json">> \in installed
    /\ <<"bundle", "node_modules", "foo", "index.js">> \in installed

\* C6 as stated: after a successful build no entry of the archive lies at
\* or beneath an entry of the dependency tree whose name matches a prune
\* pattern.
C6_PrunedAbsent ==
    Succeeded => \A n \in EntryNames : ~Prunable(n)

\* C6 amended: after a successful build, an entry of the archive that lies
\* at or beneath an entry of the dependency tree whose name matches a
\* prune pattern is a file whose removal failed during the pruning.
C6_PrunedAbsentUnlessStuck ==
    Succeeded => \A n \in EntryNames : Prunable(n) => (<<"bundle">> \o n) \in stuck

C6_Witness ==
    /\ Succeeded
    /\ stuck # {}
    /\ \E p \in installed : Prunable(Tail(p)) /\ p \notin stuck /\ Tail(p) \notin EntryNames

\* C7: when create_dxt_package has returned, the archive has one entry for
\* every file of the staging tree and no other, each named by the file's
\* path relative to the staging root: no name is absolute or starts with
\* the staging directory.
C7_RelativeEntries ==
    pc = "rmtree" =>
        /\ archive.kind = "file"
        /\ {<<"bundle">> \o n : n \in EntryNames} = Paths(bundle)
        /\ Len(archive.entries) = Cardinality(bundle)
        /\ \A n \in EntryNames : n # <<>> /\ n[1] \notin {"bundle", "/", ".."}

C7_Witness ==
    /\ pc = "rmtree"
    /\ <<"node_modules", "foo", "index.js">> \in EntryNames
    /\ <<"manifest.json">> \in EntryNames

\* C8: the working directory is the original directory except while npm
\* install is being run, whatever way the run of npm ends.
C8_CwdRestored == pc # "npm" => cwd = OriginalDir

C8_Witness ==
    /\ pc = "exit" /\ failure = "exception"
    /\ ran # <<>> /\ ran[Len(ran)] = "install_dependencies"
    /\ "package.json" \in srcs /\ bundleKind = "dir"
    /\ cwd = OriginalDir

\* C9: the stages that have started are an initial part of the order
\* check, validation, clean, staging, copy, install, archive, removal; the
\* stage main is at is the next of them; once a stage has failed the run
\* is over; and an archive written by this run means that the six stages
\* before the archiving have run.
C9_StageOrder ==
    /\ Len(ran) <= Len(StageOrder)
    /\ ran = SubSeq(StageOrder, 1, Len(ran))
    /\ pc \in Range(StageOrder) => StageOrder[Len(ran) + 1] = pc
    /\ failure # "none" => pc = "exit"
    /\ archive.gen = "fresh" =>
          {"check_node", "validate_manifest", "clean_build", "create_bundle_dir",
           "copy_source_files", "install_dependencies"} \subseteq Range(ran)

C9_Witness ==
    pc = "exit" /\ failure = "exception" /\ ran # <<>> /\ ran[Len(ran)] = "copy_source_files"

\* C10: a run that ends at the runtime check or at the manifest validation
\* has not run the clean stage and has changed nothing on the filesystem.
C10_NothingTouched ==
    (pc = "exit" /\ failure \in {"runtime", "manifest"}) =>
        /\ "clean_build" \notin Range(ran)
        /\ ~dirty

C10_Witness ==
    /\ pc = "exit" /\ failure = "manifest" /\ exitcode = <<1>>
    /\ archive.kind = "file" /\ archive.gen = "stale"
    /\ bundle # {}

====
